---- MODULE Spec2Model ----
(***************************************************************************)
(* The cabana main window (tools/cabana/mainwin.cc) as a state machine.    *)
(*                                                                         *)
(* Every slot of MainWindow is one action.  A slot runs to completion on   *)
(* the GUI thread, and the signals it causes (QUndoStack::indexChanged,    *)
(* QUndoStack::cleanChanged, DBCManager::DBCFileChanged) are direct        *)
(* connections, so the connected slots run inside the emitting call.  The  *)
(* slots are therefore written as operators from a window record to a      *)
(* window record, composed in the order of the calls in the source, and an *)
(* action commits the record its slot returns.                             *)
(*                                                                         *)
(* Strings that the code builds are sequences of tokens: "" is << >>,      *)
(* a + b is a \o b.  A file name is the sequence << directory, base >>,    *)
(* the empty file name is << >>, and fn + AUTO_SAVE_EXTENSION appends the  *)
(* extension token.                                                        *)
(***************************************************************************)
EXTENDS Integers, Sequences, FiniteSets, TLC

\* ------------------------------------------------------------------ bounds
\* Commands the undo stack may hold (QUndoStack itself is unbounded).
MaxCmds == 2
\* Entries kept in settings.recent_files (mainwin.h sets 15; scaled down).
MAX_RECENT_FILES == 2
\* Notifications background threads emit in one run.
MaxEmits == 3

\* --------------------------------------------------------------- constants
AUTO_SAVE_EXTENSION == ".autosave"
OPENDBC_FILE_PATH == "opendbc"
NoName == << >>
\* The DBC file the user picks in the file choosers.
UserFiles == {<<"d1", "a">>}
\* Undo texts of the edit commands.
Texts == {"A", "B"}
\* The bus whose sources openFileForSource passes.
Bus == 0
\* SourceSet of the whole stream, and of one bus (the bus, sent, blocked).
SOURCE_ALL == {}
BusSources(source) == {source, source + 128, source + 192}
\* Car fingerprints a stream can report; "" is the unknown car.
Fingerprints == {"", "CAR_KNOWN", "CAR_OTHER"}
\* car_fingerprint_to_dbc.json when a copy is found, and when none is.
TableLoaded == [fp \in {"CAR_KNOWN"} |-> "known_dbc"]
TableMissing == [fp \in {} |-> "none"]

VARIABLES
  dbc_files,              \* dbc()->dbc_files: <<[filename, sources, msgs]>>
  command_list,           \* UndoStack: the commands' texts
  index,                  \* UndoStack: index()
  clean_index,            \* UndoStack: the clean index, -1 when there is none
  prev_undostack_index,
  prev_undostack_count,
  window_modified,        \* QWidget::isWindowModified
  status_msg,             \* the status bar's current message
  recent_files,           \* settings.recent_files
  last_dir,               \* settings.last_dir
  autosaves,              \* file names fn for which fn.autosave is on disk
  save_dbc_text,          \* the number shown in "Save %1 DBCs...", 0: "Save DBC..."
  save_dbc_as_enabled,
  copy_dbc_to_clipboard_enabled,
  sources,                \* MainWindow::sources
  open_dbc_for_source,    \* the buses listed in "Open DBC File for Bus"
  video_title,            \* video_dock's window title
  fingerprint_to_dbc,     \* the lookup table read at construction
  main_win,               \* the static main_win pointer is set
  last,                   \* the last slot run and how it ended (history)
  progress_visible,       \* progress_bar->isVisible()
  progress_value,         \* progress_bar->value()
  gui_queue,              \* queued signal deliveries posted to the GUI thread
  emitted,                \* notifications emitted so far by background threads
  executed                \* slot executions so far: <<[id, thread]>>

winvars == <<dbc_files, command_list, index, clean_index, prev_undostack_index,
             prev_undostack_count, window_modified, status_msg, recent_files,
             last_dir, autosaves, save_dbc_text, save_dbc_as_enabled,
             copy_dbc_to_clipboard_enabled, sources, open_dbc_for_source,
             video_title, fingerprint_to_dbc, main_win, last>>
barvars == <<progress_visible, progress_value>>
queuevars == <<gui_queue, emitted, executed>>
vars == <<winvars, barvars, queuevars>>

\* ------------------------------------------------------------ the effects
\* What a slot has done so far, kept in the window record while the slot
\* runs: the dbc()->open calls, the dialogs shown, the status messages shown,
\* the autosave files written, the DBC files written, the signals emitted.
NoFx(op) ==
  [op |-> op, branch |-> "", yes |-> FALSE,
   opens |-> << >>, dialogs |-> << >>, msgs |-> {}, asv |-> {},
   autosave_calls |-> 0, index_changes |-> 0, written |-> {}, closed |-> 0,
   set_clean |-> 0, assert_failed |-> FALSE, starved |-> FALSE]

\* The window as a record, with the answers the user will give to the
\* dialogs of the slot: ans to the "Unsaved Changes" questions, fns to the
\* save-file choosers.
Win(op, ans, fns) ==
  [dbc_files |-> dbc_files, command_list |-> command_list, index |-> index,
   clean_index |-> clean_index,
   prev_undostack_index |-> prev_undostack_index,
   prev_undostack_count |-> prev_undostack_count,
   window_modified |-> window_modified, status_msg |-> status_msg,
   recent_files |-> recent_files, last_dir |-> last_dir,
   autosaves |-> autosaves, save_dbc_text |-> save_dbc_text,
   save_dbc_as_enabled |-> save_dbc_as_enabled,
   copy_dbc_to_clipboard_enabled |-> copy_dbc_to_clipboard_enabled,
   sources |-> sources, open_dbc_for_source |-> open_dbc_for_source,
   video_title |-> video_title, fingerprint_to_dbc |-> fingerprint_to_dbc,
   main_win |-> main_win, fx |-> NoFx(op), ans |-> ans, fns |-> fns,
   ret |-> TRUE]

\* The history kept of a slot: which slot it was or how it ended.
Tag(w) ==
  IF w.fx.starved THEN "starved"
  ELSE IF w.fx.assert_failed THEN "assert"
  ELSE IF w.fx.branch = "loadFile"
    THEN (IF ~w.ret THEN (IF w.fx.closed > 0 THEN "failed_closed" ELSE "failed")
          ELSE IF w.fx.yes THEN "autosave" ELSE "loaded")
  ELSE IF w.fx.branch # "" THEN w.fx.branch
  ELSE IF w.fx.op \in {"push", "undo", "redo", "save", "updateRecentFiles"}
    THEN w.fx.op
  ELSE "other"

Commit(w) ==
  /\ dbc_files' = w.dbc_files
  /\ command_list' = w.command_list
  /\ index' = w.index
  /\ clean_index' = w.clean_index
  /\ prev_undostack_index' = w.prev_undostack_index
  /\ prev_undostack_count' = w.prev_undostack_count
  /\ window_modified' = w.window_modified
  /\ status_msg' = w.status_msg
  /\ recent_files' = w.recent_files
  /\ last_dir' = w.last_dir
  /\ autosaves' = w.autosaves
  /\ save_dbc_text' = w.save_dbc_text
  /\ save_dbc_as_enabled' = w.save_dbc_as_enabled
  /\ copy_dbc_to_clipboard_enabled' = w.copy_dbc_to_clipboard_enabled
  /\ sources' = w.sources
  /\ open_dbc_for_source' = w.open_dbc_for_source
  /\ video_title' = w.video_title
  /\ fingerprint_to_dbc' = w.fingerprint_to_dbc
  /\ main_win' = w.main_win
  /\ last' = Tag(w)

\* statusBar()->showMessage(text, 2000)
showMessage(w, text) ==
  [w EXCEPT !.status_msg = text, !.fx.msgs = @ \cup {text}]

\* A dialog is shown (and answered).
Dialog(w, kind) == [w EXCEPT !.fx.dialogs = Append(@, kind)]

\* ------------------------------------------------------ DBCFile, DBCManager
dbcCount(w) == Len(w.dbc_files)

RECURSIVE SumMsgs(_)
SumMsgs(files) ==
  IF files = << >> THEN 0 ELSE Head(files).msgs + SumMsgs(Tail(files))

msgCount(w) == SumMsgs(w.dbc_files)

\* DBCFile::autoSave writes filename + AUTO_SAVE_EXTENSION.
DBCFile_autoSave(w, filename) ==
  [w EXCEPT !.autosaves = @ \cup {filename},
            !.fx.asv = @ \cup {[fn |-> filename,
                                clean |-> w.clean_index = w.index,
                                open |-> \E i \in 1..Len(w.dbc_files) :
                                           w.dbc_files[i].filename = filename]}]

\* DBCFile::cleanupAutoSaveFile removes filename + AUTO_SAVE_EXTENSION.
DBCFile_cleanupAutoSaveFile(w, filename) ==
  [w EXCEPT !.autosaves = @ \ {filename}]

\* QUndoStack::isClean (no macro is ever being composed)
isClean(w) == w.clean_index = w.index

\* ------------------------------------------------------------- MainWindow
RECURSIVE autoSaveFrom(_, _)
autoSaveFrom(w, i) ==
  IF i > Len(w.dbc_files) THEN w
  ELSE autoSaveFrom(IF w.dbc_files[i].filename # NoName
                      THEN DBCFile_autoSave(w, w.dbc_files[i].filename)
                      ELSE w,
                    i + 1)

\* autoSave without the isClean test.
autoSave_always(w) ==
  autoSaveFrom([w EXCEPT !.fx.autosave_calls = @ + 1], 1)

autoSave(w) ==
  LET w1 == [w EXCEPT !.fx.autosave_calls = @ + 1]
  IN  IF ~isClean(w1) THEN autoSaveFrom(w1, 1) ELSE w1

RECURSIVE cleanupFrom(_, _)
cleanupFrom(w, i) ==
  IF i > Len(w.dbc_files) THEN w
  ELSE cleanupFrom(DBCFile_cleanupAutoSaveFile(w, w.dbc_files[i].filename), i + 1)

cleanupAutoSaveFile(w) == cleanupFrom(w, 1)

\* UndoStack::instance()->text(idx): "" when idx is out of range.
text(w, idx) ==
  IF idx >= 0 /\ idx < Len(w.command_list) THEN <<w.command_list[idx + 1]>>
  ELSE << >>

undoStackIndexChanged(w, idx) ==
  LET count == Len(w.command_list)
      command_text ==
        IF idx = count
          THEN (IF count = w.prev_undostack_count THEN <<"Redo ">> ELSE << >>)
               \o text(w, idx - 1)
        ELSE IF idx < w.prev_undostack_index THEN <<"Undo ">> \o text(w, idx)
        ELSE IF idx > w.prev_undostack_index THEN <<"Redo ">> \o text(w, idx - 1)
        ELSE << >>
      w1 == IF count >= 0 THEN showMessage(w, command_text) ELSE w
      w2 == [w1 EXCEPT !.prev_undostack_index = idx,
                       !.prev_undostack_count = count]
  IN  autoSave(w2)

undoStackCleanChanged(w, clean) ==
  LET w1 == IF clean THEN [w EXCEPT !.prev_undostack_index = 0,
                                    !.prev_undostack_count = 0]
            ELSE w
  IN  [w1 EXCEPT !.window_modified = ~clean]

\* -------------------------------------------------------------- QUndoStack
\* connect(UndoStack::instance(), &QUndoStack::indexChanged, this, ...)
emit_indexChanged(w, idx) ==
  undoStackIndexChanged([w EXCEPT !.fx.index_changes = @ + 1], idx)

\* connect(UndoStack::instance(), &QUndoStack::cleanChanged, this, ...)
emit_cleanChanged(w, clean) == undoStackCleanChanged(w, clean)

\* QUndoStackPrivate::setIndex: indexChanged, then cleanChanged.
setIndex(w, idx, clean) ==
  LET was_clean == isClean(w)
      w1 == IF idx # w.index
              THEN emit_indexChanged([w EXCEPT !.index = idx], idx)
              ELSE w
      w2 == IF clean THEN [w1 EXCEPT !.clean_index = w1.index] ELSE w1
  IN  IF isClean(w2) # was_clean THEN emit_cleanChanged(w2, isClean(w2))
      ELSE w2

\* QUndoStack::push of a command that merges with nothing.
push(w, t) ==
  LET w1 == [w EXCEPT !.command_list = Append(SubSeq(@, 1, w.index), t),
                      !.clean_index = IF @ > w.index THEN -1 ELSE @]
  IN  setIndex(w1, w1.index + 1, FALSE)

undo(w) == IF w.index = 0 THEN w ELSE setIndex(w, w.index - 1, FALSE)

redo(w) ==
  IF w.index = Len(w.command_list) THEN w ELSE setIndex(w, w.index + 1, FALSE)

setClean(w) == setIndex(w, w.index, TRUE)

resetClean(w) ==
  LET w1 == [w EXCEPT !.clean_index = -1]
  IN  IF isClean(w) THEN emit_cleanChanged(w1, FALSE) ELSE w1

\* QUndoStack::clear returns at once when the stack holds no command.
clear(w) ==
  IF w.command_list = << >> THEN w
  ELSE LET w1 == [w EXCEPT !.command_list = << >>, !.index = 0,
                           !.clean_index = 0]
           w2 == emit_indexChanged(w1, 0)
       IN  IF ~isClean(w) THEN emit_cleanChanged(w2, TRUE) ELSE w2

\* ---------------------------------------------- MainWindow: menus, files
updateLoadSaveMenus(w) ==
  [w EXCEPT !.save_dbc_text = IF dbcCount(w) > 1 THEN dbcCount(w) ELSE 0,
            !.save_dbc_as_enabled = dbcCount(w) = 1,
            !.copy_dbc_to_clipboard_enabled = dbcCount(w) = 1,
            !.open_dbc_for_source = {s \in w.sources : s < 64}]

DBCFileChanged(w) == updateLoadSaveMenus(clear(w))

\* connect(dbc(), &DBCManager::DBCFileChanged, this, ...)
emit_DBCFileChanged(w) == DBCFileChanged(w)

\* DBCManager::closeAll
closeAll(w) ==
  emit_DBCFileChanged([w EXCEPT !.dbc_files = << >>, !.fx.closed = @ + 1])

\* DBCFile(dbc_file_name): the name of the file, less the autosave extension.
DBCFile_filename(dbc_file_name) ==
  IF Len(dbc_file_name) > 0
     /\ dbc_file_name[Len(dbc_file_name)] = AUTO_SAVE_EXTENSION
    THEN SubSeq(dbc_file_name, 1, Len(dbc_file_name) - 1)
    ELSE dbc_file_name

\* DBCManager::open(s, dbc_file_name, error).  readable: the file can be read
\* and parsed; msgs: the messages it defines.  The result is left in w.ret.
open(w, s, dbc_file_name, readable, msgs) ==
  LET w1 == [w EXCEPT !.fx.opens = Append(@, [s |-> s, fn |-> dbc_file_name])]
      same == {i \in 1..Len(w.dbc_files) :
                 w.dbc_files[i].filename = dbc_file_name}
      first == CHOOSE i \in same : \A j \in same : i <= j
  IN  IF same # {}
        THEN [emit_DBCFileChanged(
                [w1 EXCEPT !.dbc_files[first].sources = @ \cup s])
              EXCEPT !.ret = TRUE]
      ELSE IF readable
        THEN [emit_DBCFileChanged(
                [w1 EXCEPT !.dbc_files =
                   Append(@, [filename |-> DBCFile_filename(dbc_file_name),
                              sources |-> s, msgs |-> msgs])])
              EXCEPT !.ret = TRUE]
      ELSE [w1 EXCEPT !.ret = FALSE]

\* DBCManager::open(s, name, content, error).  parses: content is a DBC.
openContent(w, s, name, parses, msgs) ==
  LET w1 == [w EXCEPT !.fx.opens = Append(@, [s |-> s, fn |-> name])]
  IN  IF parses
        THEN [emit_DBCFileChanged(
                [w1 EXCEPT !.dbc_files =
                   Append(@, [filename |-> name, sources |-> s,
                              msgs |-> msgs])])
              EXCEPT !.ret = TRUE]
      ELSE [w1 EXCEPT !.ret = FALSE]

\* QList::removeAll
RemoveAll(list, x) == SelectSeq(list, LAMBDA y : y # x)

\* QFileInfo(fn).absolutePath()
absolutePath(fn) == fn[1]

\* updateRecentFiles without the removeAll.
updateRecentFiles_keepsDuplicates(w, fn) ==
  LET l1 == <<fn>> \o w.recent_files
      l2 == IF Len(l1) > MAX_RECENT_FILES THEN SubSeq(l1, 1, MAX_RECENT_FILES)
            ELSE l1
  IN  [w EXCEPT !.recent_files = l2, !.last_dir = absolutePath(fn)]

\* updateRecentFiles dropping the entry after the new one, not the last.
updateRecentFiles_evictsNewest(w, fn) ==
  LET l1 == <<fn>> \o RemoveAll(w.recent_files, fn)
      l2 == IF Len(l1) > MAX_RECENT_FILES THEN <<fn>> \o Tail(Tail(l1))
            ELSE l1
  IN  [w EXCEPT !.recent_files = l2, !.last_dir = absolutePath(fn)]

updateRecentFiles(w, fn) ==
  LET l1 == <<fn>> \o RemoveAll(w.recent_files, fn)
      l2 == IF Len(l1) > MAX_RECENT_FILES THEN SubSeq(l1, 1, MAX_RECENT_FILES)
            ELSE l1
  IN  [w EXCEPT !.recent_files = l2, !.last_dir = absolutePath(fn)]

\* DBCFile::save: writes the file and removes its autosave copy.
DBCFile_save(w, i) ==
  DBCFile_cleanupAutoSaveFile(
    [w EXCEPT !.fx.written = @ \cup {i}], w.dbc_files[i].filename)

\* DBCFile::saveAs
DBCFile_saveAs(w, i, fn) ==
  DBCFile_save([w EXCEPT !.dbc_files[i].filename = fn], i)

RECURSIVE saveFrom(_, _)
saveFrom(w, i) ==
  IF i > Len(w.dbc_files) THEN w
  ELSE IF w.dbc_files[i].filename # NoName
    THEN saveFrom(updateRecentFiles(DBCFile_save(w, i),
                                    w.dbc_files[i].filename), i + 1)
  ELSE LET fn == IF w.fns = << >> THEN NoName ELSE Head(w.fns)
           w1 == [Dialog(w, "save_chooser")
                  EXCEPT !.fns = IF @ = << >> THEN @ ELSE Tail(@),
                         !.fx.starved = @ \/ w.fns = << >>]
       IN  IF fn # NoName
             THEN saveFrom(updateRecentFiles(DBCFile_saveAs(w1, i, fn), fn),
                           i + 1)
             ELSE saveFrom(w1, i + 1)

saveFile(w) ==
  showMessage([setClean(saveFrom(w, 1)) EXCEPT !.fx.set_clean = @ + 1],
              <<"File saved">>)

save(w) == saveFile(w)

RECURSIVE remindLoop(_, _)
remindLoop(w, discard_changes) ==
  IF ~isClean(w) /\ ~discard_changes
    THEN LET ret == IF w.ans = << >> THEN "Cancel" ELSE Head(w.ans)
             w1 == [Dialog(w, "unsaved_changes")
                    EXCEPT !.ans = IF @ = << >> THEN @ ELSE Tail(@),
                           !.fx.starved = @ \/ w.ans = << >>]
         IN  IF ret = "Ok" THEN remindLoop(save(w1), discard_changes)
             ELSE remindLoop(w1, TRUE)
  ELSE w

remindSaveChanges(w) == clear(remindLoop(w, FALSE))

newFile(w) ==
  updateLoadSaveMenus(
    openContent(closeAll(remindSaveChanges(w)), SOURCE_ALL, NoName, TRUE, 0))

\* loadFile with updateRecentFiles and the status message moved out of the
\* if (ret) branch.
loadFile_recentAlways(w, fn, s, close_all, yes, readable, msgs) ==
  IF fn # NoName
    THEN LET asked == fn \in w.autosaves
             w1 == IF asked THEN Dialog(w, "autosave_question") ELSE w
             dbc_fn == IF asked /\ yes THEN fn \o <<AUTO_SAVE_EXTENSION>>
                       ELSE fn
             w2 == IF asked /\ yes THEN resetClean([w1 EXCEPT !.fx.yes = TRUE])
                   ELSE w1
             w3 == IF close_all THEN closeAll(w2) ELSE w2
             w4 == open(w3, s, dbc_fn, readable, msgs)
             w5 == showMessage(updateRecentFiles(w4, fn),
                               <<"DBC File ">> \o fn \o <<" loaded">>)
             w6 == IF w4.ret THEN w5 ELSE Dialog(w5, "load_failed")
         IN  [updateLoadSaveMenus(w6) EXCEPT !.fx.branch = "loadFile"]
    ELSE w

\* loadFile(fn, s, close_all).  yes: the answer to the autosave question,
\* should it be asked.
loadFile(w, fn, s, close_all, yes, readable, msgs) ==
  IF fn # NoName
    THEN LET asked == fn \in w.autosaves
             w1 == IF asked THEN Dialog(w, "autosave_question") ELSE w
             dbc_fn == IF asked /\ yes THEN fn \o <<AUTO_SAVE_EXTENSION>>
                       ELSE fn
             w2 == IF asked /\ yes THEN resetClean([w1 EXCEPT !.fx.yes = TRUE])
                   ELSE w1
             w3 == IF close_all THEN closeAll(w2) ELSE w2
             w4 == open(w3, s, dbc_fn, readable, msgs)
             w5 == IF w4.ret
                     THEN showMessage(updateRecentFiles(w4, fn),
                                      <<"DBC File ">> \o fn \o <<" loaded">>)
                     ELSE Dialog(w4, "load_failed")
         IN  [updateLoadSaveMenus(w5) EXCEPT !.fx.branch = "loadFile"]
    ELSE w

\* openFile up to the file chooser, and openFile.  fn: the file chosen,
\* NoName when the chooser is cancelled.
openFile_chooser(w) == Dialog(remindSaveChanges(w), "open_chooser")

openFile(w, fn, yes, readable, msgs) ==
  IF fn # NoName
    THEN loadFile(openFile_chooser(w), fn, SOURCE_ALL, TRUE, yes, readable, msgs)
    ELSE [openFile_chooser(w) EXCEPT !.fx.branch = "cancel"]

openFileForSource_chooser(w) == Dialog(w, "open_chooser")

openFileForSource(w, source, fn, yes, readable, msgs) ==
  IF fn # NoName
    THEN loadFile(openFileForSource_chooser(w), fn, BusSources(source), FALSE,
                  yes, readable, msgs)
    ELSE openFileForSource_chooser(w)

openRecentFile(w, fn, yes, readable, msgs) ==
  loadFile(remindSaveChanges(w), fn, SOURCE_ALL, TRUE, yes, readable, msgs)

loadDBCFromOpendbc(w, name, readable, msgs) ==
  LET opendbc_file_path == <<OPENDBC_FILE_PATH, name>>
  IN  updateLoadSaveMenus(
        open(closeAll(remindSaveChanges(w)), SOURCE_ALL, opendbc_file_path,
             readable, msgs))

openOpendbcFile(w, name, readable, msgs) ==
  loadDBCFromOpendbc(remindSaveChanges(w), name, readable, msgs)

loadDBCFromClipboard(w, parses, msgs) ==
  LET w1 == openContent(closeAll(remindSaveChanges(w)), SOURCE_ALL, NoName,
                        parses, msgs)
  IN  IF w1.ret /\ msgCount(w1) > 0 THEN Dialog(w1, "clipboard_loaded")
      ELSE Dialog(w1, "clipboard_failed")

\* loadDBCFromFingerprint without the msgCount() guard.
loadDBCFromFingerprint_noGuard(w, fingerprint, live, readable, msgs) ==
  LET w1 == remindSaveChanges(w)
      w2 == [w1 EXCEPT !.video_title =
               IF live THEN <<"route">>
               ELSE <<"ROUTE: ", "route", "  FINGERPRINT: ",
                      IF fingerprint = "" THEN "Unknown Car"
                      ELSE fingerprint>>]
  IN  IF fingerprint # "" /\ fingerprint \in DOMAIN w.fingerprint_to_dbc
        THEN [loadDBCFromOpendbc(w2, w.fingerprint_to_dbc[fingerprint],
                                 readable, msgs)
              EXCEPT !.fx.branch = "opendbc"]
        ELSE [newFile(w2) EXCEPT !.fx.branch = "new"]

\* loadDBCFromFingerprint.  live: can->liveStreaming().
loadDBCFromFingerprint(w, fingerprint, live, readable, msgs) ==
  IF msgCount(w) # 0 THEN [w EXCEPT !.fx.branch = "kept"]
  ELSE LET w1 == remindSaveChanges(w)
           w2 == [w1 EXCEPT !.video_title =
                    IF live THEN <<"route">>
                    ELSE <<"ROUTE: ", "route", "  FINGERPRINT: ",
                           IF fingerprint = "" THEN "Unknown Car"
                           ELSE fingerprint>>]
       IN  IF fingerprint # "" /\ fingerprint \in DOMAIN w.fingerprint_to_dbc
             THEN [loadDBCFromOpendbc(w2, w.fingerprint_to_dbc[fingerprint],
                                      readable, msgs)
                   EXCEPT !.fx.branch = "opendbc"]
             ELSE [newFile(w2) EXCEPT !.fx.branch = "new"]

\* assert(dbc()->dbcCount() > 0) ends the program when it fails.
saveAs(w, fn) ==
  IF ~(dbcCount(w) > 0)
    THEN [w EXCEPT !.fx.assert_failed = TRUE, !.main_win = FALSE]
  ELSE LET w1 == Dialog(w, "save_chooser")
       IN  IF fn # NoName THEN DBCFile_saveAs(w1, 1, fn) ELSE w1

saveDBCToClipboard(w) ==
  IF ~(dbcCount(w) > 0)
    THEN [w EXCEPT !.fx.assert_failed = TRUE, !.main_win = FALSE]
  ELSE Dialog(w, "clipboard_copied")

updateSources(w, s) == updateLoadSaveMenus([w EXCEPT !.sources = s])

\* How closeEvent went: the user saved, discarded, or was not asked.
closeBranch(w) ==
  IF w.fx.dialogs = << >> THEN "close"
  ELSE IF w.fx.set_clean > 0 THEN "close_saved"
  ELSE "close_discarded"

\* closeEvent without the cleanupAutoSaveFile call.
closeEvent_noCleanup(w) ==
  LET w1 == remindSaveChanges(w)
  IN  [w1 EXCEPT !.main_win = FALSE, !.fx.branch = closeBranch(w1)]

closeEvent(w) ==
  LET w1 == remindSaveChanges(cleanupAutoSaveFile(w))
  IN  [w1 EXCEPT !.main_win = FALSE, !.fx.branch = closeBranch(w1)]

\* ---------------------------------------------------------- progress bar
\* (cur / (double)total) * 100 converted to int.  The product of the two
\* roundings falls just below the whole number for these pairs.
RoundsBelow == {<<29, 50>>}
DoublePercent(cur, total) ==
  IF <<cur, total>> \in RoundsBelow THEN (cur * 100) \div total - 1
  ELSE (cur * 100) \div total

\* updateDownloadProgress on the bar [visible, value].
updateDownloadProgress(bar, cur, total, success) ==
  IF success /\ cur < total
    THEN [visible |-> TRUE, value |-> DoublePercent(cur, total)]
    ELSE [bar EXCEPT !.visible = FALSE]

\* ------------------------------------------------------------------ inputs
\* The reply of the save-file chooser, shown for an untitled DBC file;
\* NoName: cancelled.  No chooser is shown when no file is untitled.
Choices ==
  IF \E i \in 1..Len(dbc_files) : dbc_files[i].filename = NoName
    THEN {<<f>> : f \in UserFiles \cup {NoName}}
    ELSE {<< >>}
\* What the user answers in one slot: ans to the "Unsaved Changes" questions
\* in order, fns to the save-file chooser.  A slot that starts with a clean
\* undo stack asks nothing; a second question can follow a Cancel only while
\* the stack holds no command; a chooser needs an Ok.
UserInputs ==
  IF clean_index = index THEN {[ans |-> << >>, fns |-> << >>]}
  ELSE {[ans |-> <<"Ok">>, fns |-> f] : f \in Choices}
       \cup (IF command_list # << >>
               THEN {[ans |-> <<"Cancel">>, fns |-> << >>]}
               ELSE {[ans |-> <<"Cancel", "Cancel">>, fns |-> << >>]}
                    \cup {[ans |-> <<"Cancel", "Ok">>, fns |-> f] :
                            f \in Choices})
\* The answer to the autosave question, asked when the autosave file exists.
YesFor(w, fn) == IF fn \in w.autosaves THEN BOOLEAN ELSE {FALSE}
\* What a file (or the clipboard) holds: no DBC, or a DBC with a message.
Contents == {"bad", "msgs"}
Readable(content) == content # "bad"
Msgs(content) == IF content = "msgs" THEN 1 ELSE 0
OpendbcNames == {"known_dbc"}
\* Undo texts of the edits made in the full window.
EditTexts == {"A"}
\* Open DBC files the model follows (the manager itself is unbounded).
MaxOpen == 2

\* ------------------------------------------------- the runs of each slot
\* The window each slot leaves, for every input the slot can get in the
\* current state.
NewFileRuns == {newFile(Win("newFile", u.ans, u.fns)) : u \in UserInputs}

\* The calls of loadFile the slots make: the window at the call, and the
\* arguments.
OpenFileCalls ==
  {[w |-> openFile_chooser(Win("openFile", u.ans, u.fns)), fn |-> fn,
    s |-> SOURCE_ALL, close_all |-> TRUE] : u \in UserInputs, fn \in UserFiles}

OpenRecentFileCalls ==
  {[w |-> remindSaveChanges(Win("openRecentFile", u.ans, u.fns)),
    fn |-> recent_files[i], s |-> SOURCE_ALL, close_all |-> TRUE] :
     u \in UserInputs, i \in 1..Len(recent_files)}

OpenFileForSourceCalls ==
  IF Len(dbc_files) < MaxOpen
    THEN {[w |-> openFileForSource_chooser(Win("openFileForSource", << >>, << >>)),
           fn |-> fn, s |-> BusSources(source), close_all |-> FALSE] :
            source \in open_dbc_for_source, fn \in UserFiles}
    ELSE {}

LoadFileCalls ==
  IF main_win
    THEN OpenFileCalls \cup OpenRecentFileCalls \cup OpenFileForSourceCalls
    ELSE {}

\* loadFile run from a call, for every answer and every content of the file.
LoadFileRuns(calls) ==
  UNION {{[c |-> c, yes |-> yes, content |-> ct,
           w |-> loadFile(c.w, c.fn, c.s, c.close_all, yes, Readable(ct),
                          Msgs(ct))] :
            yes \in YesFor(c.w, c.fn), ct \in Contents} : c \in calls}

OpenFileRuns ==
  {r.w : r \in LoadFileRuns(OpenFileCalls)}
  \cup {openFile(Win("openFile", u.ans, u.fns), NoName, FALSE, FALSE, 0) :
          u \in UserInputs}

OpenFileForSourceRuns ==
  {r.w : r \in LoadFileRuns(OpenFileForSourceCalls)}
  \cup (IF Len(dbc_files) < MaxOpen
          THEN {openFileForSource(Win("openFileForSource", << >>, << >>),
                                  source, NoName, FALSE, FALSE, 0) :
                  source \in open_dbc_for_source}
          ELSE {})

OpenRecentFileRuns == {r.w : r \in LoadFileRuns(OpenRecentFileCalls)}

OpenOpendbcFileRuns ==
  {openOpendbcFile(Win("openOpendbcFile", u.ans, u.fns), name, Readable(c),
                   Msgs(c)) : u \in UserInputs, name \in OpendbcNames,
                              c \in Contents}

LoadDBCFromClipboardRuns ==
  {loadDBCFromClipboard(Win("loadDBCFromClipboard", u.ans, u.fns),
                        Readable(c), Msgs(c)) : u \in UserInputs, c \in Contents}

\* streamStarted, with the fingerprint the stream reports.
StreamStartedRuns ==
  {[fingerprint |-> fp, content |-> c,
    w |-> loadDBCFromFingerprint(Win("loadDBCFromFingerprint", u.ans, u.fns),
                                 fp, live, Readable(c), Msgs(c))] :
     fp \in Fingerprints, live \in BOOLEAN, u \in UserInputs, c \in Contents}

SaveRuns == {save(Win("save", << >>, fns)) : fns \in Choices}

SaveAsRuns ==
  IF save_dbc_as_enabled
    THEN {saveAs(Win("saveAs", << >>, << >>), fn) :
            fn \in UserFiles \cup {NoName}}
    ELSE {}

SaveDBCToClipboardRuns ==
  IF copy_dbc_to_clipboard_enabled
    THEN {saveDBCToClipboard(Win("saveDBCToClipboard", << >>, << >>))}
    ELSE {}

UpdateSourcesRuns ==
  {updateSources(Win("updateSources", << >>, << >>), s) :
     s \in {{}, BusSources(Bus)}}

\* An edit of an open DBC file pushes its command.
PushRuns(texts) ==
  IF Len(dbc_files) > 0 /\ index < MaxCmds
    THEN {push(Win("push", << >>, << >>), t) : t \in texts}
    ELSE {}

\* The Undo action is enabled while canUndo(), Redo while canRedo().
UndoRuns == IF index > 0 THEN {undo(Win("undo", << >>, << >>))} ELSE {}

RedoRuns ==
  IF index < Len(command_list) THEN {redo(Win("redo", << >>, << >>))} ELSE {}

\* remindSaveChanges as the slots call it, for every answer.
RemindSaveChangesRuns ==
  {remindSaveChanges(Win("remindSaveChanges", u.ans, u.fns)) : u \in UserInputs}

\* openFile with the file chooser cancelled.
OpenFileCancelRuns ==
  {openFile(Win("openFile", u.ans, u.fns), NoName, FALSE, FALSE, 0) :
     u \in UserInputs}

CloseEventRuns ==
  {closeEvent(Win("closeEvent", u.ans, u.fns)) : u \in UserInputs}

\* ----------------------------------------------------------------- actions
NewFile ==
  /\ main_win
  /\ \E w \in NewFileRuns : Commit(w)
  /\ UNCHANGED <<barvars, queuevars>>

OpenFile ==
  /\ main_win
  /\ \E w \in OpenFileRuns : Commit(w)
  /\ UNCHANGED <<barvars, queuevars>>

OpenFileForSource ==
  /\ main_win
  /\ \E w \in OpenFileForSourceRuns : Commit(w)
  /\ UNCHANGED <<barvars, queuevars>>

OpenRecentFile ==
  /\ main_win
  /\ \E w \in OpenRecentFileRuns : Commit(w)
  /\ UNCHANGED <<barvars, queuevars>>

OpenOpendbcFile ==
  /\ main_win
  /\ \E w \in OpenOpendbcFileRuns : Commit(w)
  /\ UNCHANGED <<barvars, queuevars>>

LoadDBCFromClipboard ==
  /\ main_win
  /\ \E w \in LoadDBCFromClipboardRuns : Commit(w)
  /\ UNCHANGED <<barvars, queuevars>>

StreamStarted ==
  /\ main_win
  /\ \E w \in {r.w : r \in StreamStartedRuns} : Commit(w)
  /\ UNCHANGED <<barvars, queuevars>>

Save ==
  /\ main_win
  /\ \E w \in SaveRuns : Commit(w)
  /\ UNCHANGED <<barvars, queuevars>>

SaveAs ==
  /\ main_win
  /\ \E w \in SaveAsRuns : Commit(w)
  /\ UNCHANGED <<barvars, queuevars>>

SaveDBCToClipboard ==
  /\ main_win
  /\ \E w \in SaveDBCToClipboardRuns : Commit(w)
  /\ UNCHANGED <<barvars, queuevars>>

UpdateSources ==
  /\ main_win
  /\ \E w \in UpdateSourcesRuns : Commit(w)
  /\ UNCHANGED <<barvars, queuevars>>

Push ==
  /\ main_win
  /\ \E w \in PushRuns(EditTexts) : Commit(w)
  /\ UNCHANGED <<barvars, queuevars>>

PushAny ==
  /\ main_win
  /\ \E w \in PushRuns(Texts) : Commit(w)
  /\ UNCHANGED <<barvars, queuevars>>

Undo ==
  /\ main_win
  /\ \E w \in UndoRuns : Commit(w)
  /\ UNCHANGED <<barvars, queuevars>>

Redo ==
  /\ main_win
  /\ \E w \in RedoRuns : Commit(w)
  /\ UNCHANGED <<barvars, queuevars>>

CloseEvent ==
  /\ main_win
  /\ \E w \in CloseEventRuns : Commit(w)
  /\ UNCHANGED <<barvars, queuevars>>


\* ------------------------------------------------ recent files on their own
\* File names passed to updateRecentFiles, in three directories.
RecentNames ==
  {<<"d1", "a">>, <<"d1", "b">>, <<"d2", "c">>, <<"d2", "d">>, <<"d3", "e">>,
   <<"d3", "f">>}

NoDuplicates(list) ==
  \A i, j \in 1..Len(list) : list[i] = list[j] => i = j

\* The lists settings.recent_files can hold when the program starts.
RecentLists ==
  {l \in UNION {[1..n -> RecentNames] : n \in 0..MAX_RECENT_FILES} :
     NoDuplicates(l)}

UpdateRecentFilesRuns ==
  {updateRecentFiles(Win("updateRecentFiles", << >>, << >>), fn) :
     fn \in RecentNames}

UpdateRecentFiles ==
  /\ main_win
  /\ \E w \in UpdateRecentFilesRuns : Commit(w)
  /\ UNCHANGED <<barvars, queuevars>>


\* ------------------------------------------- notifications across threads
GuiThread == "gui"
Threads == {"gui", "replay", "download"}
LogTexts == {"m1", "m2"}
\* (cur, total, success) reports of the download progress handler.
ProgressReports == {<<0, 0, TRUE>>, <<1, 2, TRUE>>, <<29, 50, TRUE>>,
                    <<1, 2, FALSE>>}

\* The slot a signal is connected to, run by `thread`.
RunSlot(n, thread) ==
  /\ executed' = Append(executed, [id |-> n.id, thread |-> thread])
  /\ IF n.sig = "showMessage"
       THEN /\ status_msg' = n.msg
            /\ UNCHANGED barvars
       ELSE /\ LET bar == updateDownloadProgress(
                            [visible |-> progress_visible,
                             value |-> progress_value],
                            n.args[1], n.args[2], n.args[3])
               IN  /\ progress_visible' = bar.visible
                   /\ progress_value' = bar.value
            /\ UNCHANGED status_msg

\* emit through a direct connection: the emitting thread runs the slot.
Emit_direct(n) ==
  /\ emitted' = Append(emitted, [id |-> n.id, thread |-> n.thread])
  /\ RunSlot(n, n.thread)
  /\ UNCHANGED gui_queue

\* emit of a signal connected with the default connection type to an object
\* living in the GUI thread: a direct call when emitted by the GUI thread, a
\* queued call otherwise.
Emit(n) ==
  /\ emitted' = Append(emitted, [id |-> n.id, thread |-> n.thread])
  /\ IF n.thread = GuiThread
       THEN RunSlot(n, n.thread) /\ UNCHANGED gui_queue
       ELSE /\ gui_queue' = Append(gui_queue, n)
            /\ UNCHANGED <<executed, status_msg, barvars>>

OtherWinVars ==
  <<dbc_files, command_list, index, clean_index, prev_undostack_index,
    prev_undostack_count, window_modified, recent_files, last_dir, autosaves,
    save_dbc_text, save_dbc_as_enabled, copy_dbc_to_clipboard_enabled,
    sources, open_dbc_for_source, video_title, fingerprint_to_dbc, main_win,
    last>>

\* The handler given to installMessageHandler, called by `thread`.
ReplayMessage ==
  /\ Len(emitted) < MaxEmits
  /\ \E thread \in Threads, msg \in LogTexts :
       Emit([id |-> Len(emitted) + 1, thread |-> thread,
             sig |-> "showMessage", msg |-> <<msg>>, args |-> <<0, 0, FALSE>>])
  /\ UNCHANGED OtherWinVars

\* The handler given to installDownloadProgressHandler, called by `thread`.
DownloadProgress ==
  /\ Len(emitted) < MaxEmits
  /\ \E thread \in Threads, args \in ProgressReports :
       Emit([id |-> Len(emitted) + 1, thread |-> thread,
             sig |-> "updateProgressBar", msg |-> << >>, args |-> args])
  /\ UNCHANGED OtherWinVars

\* qLogMessageHandler, called by `thread`.
QtLogMessage ==
  /\ Len(emitted) < MaxEmits
  /\ main_win
  /\ \E thread \in Threads, msg \in LogTexts :
       Emit([id |-> Len(emitted) + 1, thread |-> thread,
             sig |-> "showMessage", msg |-> <<msg>>, args |-> <<0, 0, FALSE>>])
  /\ UNCHANGED OtherWinVars

\* The GUI thread's event loop delivers the oldest queued call.
Deliver ==
  /\ gui_queue # << >>
  /\ RunSlot(Head(gui_queue), GuiThread)
  /\ gui_queue' = Tail(gui_queue)
  /\ UNCHANGED <<emitted, OtherWinVars>>

\* ---------------------------------------------------------- specifications
\* The window as MainWindow::MainWindow leaves it, but for the settings.
InitWindow ==
  /\ dbc_files = << >>
  /\ command_list = << >>
  /\ index = 0
  /\ clean_index = 0
  /\ prev_undostack_index = 0
  /\ prev_undostack_count = 0
  /\ window_modified = FALSE
  /\ status_msg = << >>
  /\ autosaves \in SUBSET UserFiles
  /\ save_dbc_text = 0
  /\ save_dbc_as_enabled = TRUE
  /\ copy_dbc_to_clipboard_enabled = TRUE
  /\ sources = {}
  /\ open_dbc_for_source = {}
  /\ video_title = <<"route">>
  /\ fingerprint_to_dbc \in {TableLoaded, TableMissing}
  /\ main_win = TRUE
  /\ last = "other"
  /\ progress_visible = FALSE
  /\ progress_value = -1
  /\ gui_queue = << >>
  /\ emitted = << >>
  /\ executed = << >>

\* A first start: no recent file.
Init ==
  /\ InitWindow
  /\ recent_files = << >>
  /\ last_dir = "home"

\* A start with any settings an earlier session can have saved.
InitRecent ==
  /\ InitWindow
  /\ recent_files \in RecentLists
  /\ last_dir \in {"home", "d1", "d2", "d3"}

\* The window in the user's hands: every slot but the stream's start.
Next ==
  \/ NewFile
  \/ OpenFile
  \/ OpenFileForSource
  \/ OpenRecentFile
  \/ OpenOpendbcFile
  \/ LoadDBCFromClipboard
  \/ Save
  \/ SaveAs
  \/ SaveDBCToClipboard
  \/ UpdateSources
  \/ Push
  \/ Undo
  \/ Redo
  \/ CloseEvent

Spec == Init /\ [][Next]_vars

\* The stream starts (and restarts) while the user opens and edits files.
NextStream ==
  \/ StreamStarted
  \/ NewFile
  \/ OpenFile
  \/ Push
  \/ Undo
  \/ Save

SpecStream == Init /\ [][NextStream]_vars

\* The user edits, undoes, redoes and saves a new file.
NextUndo ==
  \/ NewFile
  \/ PushAny
  \/ Undo
  \/ Redo
  \/ Save

SpecUndo == Init /\ [][NextUndo]_vars

\* Files are loaded and saved under any earlier settings.
NextRecent == UpdateRecentFiles

SpecRecent == InitRecent /\ [][NextRecent]_vars

\* Background threads and the GUI thread report while the event loop runs.
NextThreads ==
  \/ ReplayMessage
  \/ DownloadProgress
  \/ QtLogMessage
  \/ Deliver

SpecThreads == Init /\ [][NextThreads]_vars

\* UserInputs holds an answer to every question a slot asks.
NoStarve == last # "starved"

\* ------------------------------------------------------------------ claims
\* Every slot run from the current state, for every input.
AllRuns ==
  IF main_win
    THEN NewFileRuns \cup OpenFileRuns \cup OpenFileForSourceRuns
         \cup OpenRecentFileRuns \cup OpenOpendbcFileRuns
         \cup LoadDBCFromClipboardRuns \cup {r.w : r \in StreamStartedRuns}
         \cup SaveRuns \cup SaveAsRuns \cup SaveDBCToClipboardRuns
         \cup UpdateSourcesRuns \cup PushRuns(EditTexts) \cup UndoRuns
         \cup RedoRuns \cup CloseEventRuns
    ELSE {}

\* C1: a loadFile call (from openFile, openRecentFile or openFileForSource)
\* whose dbc()->open fails has called open once, for the file asked for or
\* its autosave copy, has shown the "Failed to load DBC file" warning last,
\* has left settings.recent_files and settings.last_dir as they were at the
\* call, and has shown no "DBC File ... loaded" message.
C1_FailedLoadAborts ==
  \A r \in LoadFileRuns(LoadFileCalls) :
    ~r.w.ret =>
      /\ Len(r.w.fx.opens) = Len(r.c.w.fx.opens) + 1
      /\ r.w.fx.opens[Len(r.w.fx.opens)].fn
           \in {r.c.fn, r.c.fn \o <<AUTO_SAVE_EXTENSION>>}
      /\ r.w.fx.dialogs =
           r.c.w.fx.dialogs
           \o (IF r.c.fn \in r.c.w.autosaves THEN <<"autosave_question">>
               ELSE << >>)
           \o <<"load_failed">>
      /\ r.w.recent_files = r.c.w.recent_files
      /\ r.w.last_dir = r.c.w.last_dir
      /\ (<<"DBC File ">> \o r.c.fn \o <<" loaded">>) \notin r.w.fx.msgs

\* A load has failed in a window that has a recent file to keep.
C1_Witness ==
  /\ last \in {"failed", "failed_closed"}
  /\ recent_files # << >>

\* C2: a loadFile call whose dbc()->open fails leaves dbc()->dbc_files as it
\* was at the call, with close_all true and with close_all false.
C2_FailedLoadKeepsOpenFiles ==
  \A r \in LoadFileRuns(LoadFileCalls) :
    ~r.w.ret => r.w.dbc_files = r.c.w.dbc_files

\* C3: whatever slot runs, every autosave file it writes is written while
\* the undo stack is not clean, for a file name that is not empty and belongs
\* to an open DBC file; no autosave file appears otherwise; and autoSave has
\* run once for every indexChanged the undo stack emitted.
C3_AutosaveOnlyWhenEdited ==
  \A w \in AllRuns :
    /\ \A e \in w.fx.asv : ~e.clean /\ e.fn # NoName /\ e.open
    /\ w.autosaves \subseteq autosaves \cup {e.fn : e \in w.fx.asv}
    /\ w.fx.autosave_calls = w.fx.index_changes

\* An edit has written the autosave copy of the opendbc file (no earlier
\* session leaves one).
C3_Witness ==
  /\ last = "push"
  /\ clean_index # index
  /\ <<OPENDBC_FILE_PATH, "known_dbc">> \in autosaves
  /\ \E i \in 1..Len(dbc_files) :
       dbc_files[i].filename = <<OPENDBC_FILE_PATH, "known_dbc">>

\* C4: after a loadFile that loaded the autosave copy (the user answered
\* Yes and the open succeeded) the undo stack is not clean.
C4_AutosaveLoadLeavesUnsaved ==
  [][last' = "autosave" => clean_index' # index']_vars

\* A slot run by the user loaded the autosave copy.
C4_Witness == last = "autosave"

\* C5: under any sequence of updateRecentFiles calls from a list without
\* duplicates and of at most MAX_RECENT_FILES entries, the list keeps both
\* properties, and a call with fn leaves fn at index 0 and last_dir the
\* directory of fn.
C5_RecentFilesList ==
  /\ NoDuplicates(recent_files)
  /\ Len(recent_files) <= MAX_RECENT_FILES
  /\ \A fn \in RecentNames :
       LET w == updateRecentFiles(Win("updateRecentFiles", << >>, << >>), fn)
       IN  /\ NoDuplicates(w.recent_files)
           /\ Len(w.recent_files) <= MAX_RECENT_FILES
           /\ w.recent_files[1] = fn
           /\ w.last_dir = fn[1]

\* A call on a full list moved a name that was in it to the front.
C5_Witness ==
  /\ last = "updateRecentFiles"
  /\ Len(recent_files) = MAX_RECENT_FILES
  /\ last_dir = recent_files[1][1]
  /\ \E fn \in RecentNames :
       LET w == updateRecentFiles(Win("updateRecentFiles", << >>, << >>), fn)
       IN  /\ \E i \in 2..Len(recent_files) : recent_files[i] = fn
           /\ Len(w.recent_files) = MAX_RECENT_FILES

\* C6: every undo step shows "Undo <text of the command undone>" and every
\* redo step shows "Redo <text of the command redone>", after any pushes,
\* undos, redos and saves.
C6_UndoRedoMessages ==
  [][/\ last' = "undo" => status_msg' = <<"Undo ", command_list[index' + 1]>>
     /\ last' = "redo" => status_msg' = <<"Redo ", command_list[index']>>]_vars

\* C7: loadDBCFromFingerprint run while the DBC manager holds a message
\* leaves the open DBC files, the undo stack, the video dock title and the
\* load/save menus as they are, and shows no dialog.
C7_StreamKeepsLoadedDBC ==
  \A r \in StreamStartedRuns :
    SumMsgs(dbc_files) > 0 =>
      /\ r.w.dbc_files = dbc_files
      /\ r.w.command_list = command_list
      /\ r.w.index = index
      /\ r.w.clean_index = clean_index
      /\ r.w.video_title = video_title
      /\ r.w.save_dbc_text = save_dbc_text
      /\ r.w.save_dbc_as_enabled = save_dbc_as_enabled
      /\ r.w.copy_dbc_to_clipboard_enabled = copy_dbc_to_clipboard_enabled
      /\ r.w.open_dbc_for_source = open_dbc_for_source
      /\ r.w.fx.dialogs = << >>
      /\ r.w.fx.closed = 0
      /\ r.w.fx.opens = << >>

\* The stream started over a loaded DBC with unsaved edits.
C7_Witness ==
  /\ last = "kept"
  /\ SumMsgs(dbc_files) > 0
  /\ command_list # << >>
  /\ clean_index # index

\* C8: loadDBCFromFingerprint run while no DBC message is loaded leaves
\* exactly the mapped opendbc file open for all sources when the fingerprint
\* is non-empty and in the table, and exactly one untitled DBC open for all
\* sources in every other case.
C8_StreamLoadsOneDBC ==
  \A r \in StreamStartedRuns :
    SumMsgs(dbc_files) = 0 =>
      /\ Len(r.w.dbc_files) = 1
      /\ r.w.dbc_files[1].sources = SOURCE_ALL
      /\ r.w.dbc_files[1].filename =
           IF r.fingerprint # "" /\ r.fingerprint \in DOMAIN fingerprint_to_dbc
             THEN <<OPENDBC_FILE_PATH, fingerprint_to_dbc[r.fingerprint]>>
             ELSE NoName

\* C9: every status-bar and progress-bar update is run by the GUI thread; a
\* notification emitted by a background thread is first queued, never run at
\* the emit; and the updates of background notifications run in the order
\* the notifications were emitted.
C9_UpdatesOnGuiThreadInOrder ==
  /\ \A i \in 1..Len(executed) : executed[i].thread = GuiThread
  /\ \A k \in 1..Len(emitted) :
       emitted[k].thread # GuiThread =>
         ((\E i \in 1..Len(gui_queue) : gui_queue[i].id = k)
            # (\E i \in 1..Len(executed) : executed[i].id = k))
  /\ \A i, j \in 1..Len(executed) :
       (/\ i < j
        /\ emitted[executed[i].id].thread # GuiThread
        /\ emitted[executed[j].id].thread # GuiThread)
         => executed[i].id < executed[j].id

\* The event loop has delivered notifications of both background threads,
\* a log message and a progress report among them.
C9_Witness ==
  /\ \E i, j \in 1..Len(executed) :
       /\ emitted[executed[i].id].thread = "replay"
       /\ emitted[executed[j].id].thread = "download"
  /\ progress_visible
  /\ status_msg # << >>

\* C10: a push shows the pushed command's text, with no prefix.
C10_PushShowsOwnText ==
  [][last' = "push" => status_msg' = <<command_list'[index']>>]_vars

\* C11: a saveFile that marks the undo stack clean and shows "File saved"
\* has written every open DBC file, the untitled ones included.
C11_SavedMeansWritten ==
  \A w \in (IF main_win THEN SaveRuns ELSE {}) :
    (w.fx.set_clean > 0 /\ <<"File saved">> \in w.fx.msgs) =>
      w.fx.written = 1..Len(w.dbc_files)

\* C12: "Save DBC As..." and "Copy DBC To Clipboard" are enabled only while
\* exactly one DBC file is open, from construction on, and the assertions of
\* saveAs and saveDBCToClipboard never fail.
C12_SaveAsNeedsOneDBC ==
  /\ main_win =>
       /\ save_dbc_as_enabled => Len(dbc_files) = 1
       /\ copy_dbc_to_clipboard_enabled => Len(dbc_files) = 1
  /\ last # "assert"

\* C13: remindSaveChanges asks at most once, and only when the undo stack is
\* not clean; when it returns the undo stack is empty and clean.
C13_RemindLeavesCleanStack ==
  \A w \in (IF main_win THEN RemindSaveChangesRuns ELSE {}) :
    /\ Len(w.fx.dialogs) <= 1
    /\ (w.fx.dialogs # << >>) = (clean_index # index)
    /\ w.command_list = << >>
    /\ isClean(w)

\* C14: openFile with the chooser cancelled, the user not having saved,
\* leaves the open DBC files, the undo stack's command count and clean state,
\* the window-modified flag and the recent files as they were.
C14_CancelledOpenChangesNothing ==
  \A w \in (IF main_win THEN OpenFileCancelRuns ELSE {}) :
    w.fx.set_clean = 0 =>
      /\ w.dbc_files = dbc_files
      /\ Len(w.command_list) = Len(command_list)
      /\ isClean(w) = (clean_index = index)
      /\ w.window_modified = window_modified
      /\ w.recent_files = recent_files

\* C15: closeEvent leaves no autosave copy of a DBC file that was open at
\* the call or is open at the end, and writes none after cleanupAutoSaveFile.
C15_CloseLeavesNoAutosave ==
  \A w \in (IF main_win THEN CloseEventRuns ELSE {}) :
    /\ \A i \in 1..Len(dbc_files) : dbc_files[i].filename \notin w.autosaves
    /\ \A i \in 1..Len(w.dbc_files) : w.dbc_files[i].filename \notin w.autosaves
    /\ w.fx.asv = {}

\* The window was closed over discarded edits of a named DBC file.
C15_Witness ==
  /\ last = "close_discarded"
  /\ ~main_win
  /\ \E i \in 1..Len(dbc_files) :
       dbc_files[i].filename # NoName /\ dbc_files[i].filename \notin autosaves

C17_ProgressValue ==
  \A args \in ProgressReports :
    LET bar == updateDownloadProgress(
                 [visible |-> progress_visible, value |-> progress_value],
                 args[1], args[2], args[3])
        shown == args[3] /\ args[1] < args[2]
    IN  /\ bar.visible = shown
        /\ shown => /\ bar.value = (args[1] * 100) \div args[2]
                    /\ bar.value \in 0..99
        /\ ~shown => bar.value = progress_value

====
